---- MODULE Spec2Model ----
(***************************************************************************)
(* Model of the two course notebooks of CHM676F19:                         *)
(*   - Exercise9.ipynb: the stick absorption spectrum of a linear chain of *)
(*     Nosc coupled oscillators (specification Spec);                      *)
(*   - the Fourier notebook (src/unnamed/part_000): the DFT / IDFT         *)
(*     convention of NumPy, the delta-function cell and the fftfreq axis   *)
(*     (specification SpecDFT).                                            *)
(* All numbers are exact.  Frequencies are integers.  A normalised         *)
(* eigenvector column is kept as an integer vector u together with         *)
(* q = u.u, standing for u/sqrt(q); a spectrum entry is an exact rational  *)
(* <<numerator, denominator>>.                                             *)
(***************************************************************************)
EXTENDS Integers, Sequences, FiniteSets, TLC

VARIABLES
    pc,      \* position in the Exercise9 code cell
    Nosc,    \* number of oscillators
    vo,      \* site energy
    V,       \* coupling constant
    Mu,      \* dipole moment matrix, np.ones((Nosc,1))
    H,       \* Hamiltonian, H[i][j]
    n,       \* loop variable of both for-loops of the cell
    v1, v2, dv,   \* frequency window and step
    vaxis,   \* frequency axis, vaxis[b] for b in 0..len-1
    spec,    \* stick spectrum, one rational per bin
    eVals,   \* eigenvalues as returned by the eigensolver
    eVecs,   \* eigenvector columns: eVecs[k] = [u |-> ..., q |-> ...] is u/sqrt(q)
    eMu,     \* effective dipoles: eMu[k] = [s |-> ..., q |-> ...] is s/sqrt(q)
    ndx,     \* bin selected by the last loop iteration
    err,     \* exception that ended the cell, or "none"
    bars,    \* heights of the bar chart 'Site coefficients for |0>'
    cell,    \* Fourier notebook: which cell sequence runs
    fpc,     \* Fourier notebook: position in it
    N,       \* number of samples
    f,       \* signal vector, f[i] for i in 0..N-1
    F,       \* transform of f
    fBack,   \* inverse transform of F
    Faxis,   \* the unit-free frequency axis N*fftfreq(N)
    dt,      \* sampling interval
    faxis,   \* the frequency axis fftfreq(N)/dt, rationals
    ferr     \* exception that ended the Fourier cell, or "none"

exVars == <<pc, Nosc, vo, V, Mu, H, n, v1, v2, dv, vaxis, spec, eVals, eVecs, eMu, ndx, err,
           bars>>
dftVars == <<cell, fpc, N, f, F, fBack, Faxis, dt, faxis, ferr>>
vars == <<exVars, dftVars>>

-----------------------------------------------------------------------------
(* Bounds and parameter sets *)

\* largest chain whose Hamiltonian is built
MaxNosc == 3
\* largest chain handed to the eigensolver.  The eigensolver is modelled
\* exactly, so it returns only where the eigenpairs are rational: Nosc <= 2,
\* or V = 0; the other chains are built and stop before np.linalg.eig
MaxEigN == 2

\* the values of the notebook
NotebookVo == 17000
NotebookV == -100
NotebookV1 == 16000
NotebookV2 == 18000
NotebookDv == 1

\* parameter values the cell is run with: small ones, chosen so that
\* eigenvalues fall inside, below and above the window, halfway between two
\* bins and into the same bin, and the notebook's own vo, V, v1, v2, dv
VoSet == {3, 4}
VSet == {-1, 0, 1}
WindowSet == {<<0, 4>>, <<4, 7>>, <<0, 7>>, <<4, 4>>}
DvSet == {1, 2, 3}

Params ==
    [Nosc : 1..MaxNosc, vo : VoSet, V : VSet, win : WindowSet, dv : DvSet]
    \cup [Nosc : 1..MaxNosc, vo : {NotebookVo}, V : {NotebookV},
          win : {<<NotebookV1, NotebookV2>>}, dv : {NotebookDv}]

-----------------------------------------------------------------------------
(* Exact arithmetic helpers *)

Abs(x) == IF x < 0 THEN -x ELSE x

RECURSIVE GCD(_, _)
GCD(a, b) == IF b = 0 THEN Abs(a) ELSE GCD(b, a % b)

\* the rational num/den (den > 0) in lowest terms
Rat(num, den) ==
    LET g == GCD(num, den) IN <<num \div g, den \div g>>

RatAdd(x, y) == Rat(x[1] * y[2] + y[1] * x[2], x[2] * y[2])

RatZero == <<0, 1>>

\* sum of g[i] for i in 0..m-1
RECURSIVE SumTo(_, _)
SumTo(g, m) == IF m = 0 THEN 0 ELSE g[m - 1] + SumTo(g, m - 1)

\* sum of the rationals g[i] for i in lo..hi-1 (halving keeps the recursion shallow)
RECURSIVE RatSumIn(_, _, _)
RatSumIn(g, lo, hi) ==
    IF hi - lo <= 0 THEN RatZero
    ELSE IF hi - lo = 1 THEN g[lo]
    ELSE LET mid == (lo + hi) \div 2
         IN RatAdd(RatSumIn(g, lo, mid), RatSumIn(g, mid, hi))

\* sum of the rationals g[i] for i in 0..m-1
RatSumTo(g, m) == RatSumIn(g, 0, m)

-----------------------------------------------------------------------------
(* Exercise9: building the Hamiltonian *)

Idx(m) == 0..(m - 1)

\* np.zeros((m,m))
Zeros(m) == [i \in Idx(m) |-> [j \in Idx(m) |-> 0]]

\* a transpose that returns its argument
TransposeSame(A, m) == A

\* np.transpose(A)
Transpose(A, m) == [i \in Idx(m) |-> [j \in Idx(m) |-> A[j][i]]]

\* np.eye(m)
Eye(m) == [i \in Idx(m) |-> [j \in Idx(m) |-> IF i = j THEN 1 ELSE 0]]

\* A + B for two m x m matrices
MatAdd(A, B, m) == [i \in Idx(m) |-> [j \in Idx(m) |-> A[i][j] + B[i][j]]]

\* A * c
MatScale(A, c, m) == [i \in Idx(m) |-> [j \in Idx(m) |-> A[i][j] * c]]

\* np.ones((m,1))
Ones(m) == [i \in Idx(m) |-> 1]

ExInit ==
    /\ \E p \in Params :
        /\ Nosc = p.Nosc
        /\ vo = p.vo
        /\ V = p.V
        /\ v1 = p.win[1]
        /\ v2 = p.win[2]
        /\ dv = p.dv
    /\ Mu = Ones(Nosc)
    /\ pc = "zeros"
    /\ H = <<>>
    /\ n = 0
    /\ vaxis = <<>>
    /\ spec = <<>>
    /\ eVals = <<>>
    /\ eVecs = <<>>
    /\ eMu = <<>>
    /\ ndx = -1
    /\ err = "none"
    /\ bars = <<>>

\* H = np.zeros((Nosc,Nosc))
HZeros ==
    /\ UNCHANGED <<dftVars, bars>>
    /\ pc = "zeros"
    /\ H' = Zeros(Nosc)
    /\ n' = 0
    /\ pc' = "super"
    /\ UNCHANGED <<Nosc, vo, V, Mu, v1, v2, dv, vaxis, spec, eVals, eVecs, eMu, ndx, err>>

\* one iteration of: for n in range(0, Nosc-1): H[n,n+1] = V
HSuper ==
    /\ UNCHANGED <<dftVars, bars>>
    /\ pc = "super"
    /\ n < Nosc - 1
    /\ H' = [H EXCEPT ![n][n + 1] = V]
    /\ n' = n + 1
    /\ UNCHANGED <<pc, Nosc, vo, V, Mu, v1, v2, dv, vaxis, spec, eVals, eVecs, eMu, ndx, err>>

\* the loop is exhausted; H = H + np.transpose(H)
HSymmetrize ==
    /\ UNCHANGED <<dftVars, bars>>
    /\ pc = "super"
    /\ ~(n < Nosc - 1)
    /\ H' = MatAdd(H, Transpose(H, Nosc), Nosc)
    /\ pc' = "diag"
    /\ UNCHANGED <<Nosc, vo, V, Mu, n, v1, v2, dv, vaxis, spec, eVals, eVecs, eMu, ndx, err>>

\* H = H + np.eye(Nosc)*vo
HDiagonal ==
    /\ UNCHANGED <<dftVars, bars>>
    /\ pc = "diag"
    /\ H' = MatAdd(H, MatScale(Eye(Nosc), vo, Nosc), Nosc)
    /\ pc' = "axis"
    /\ UNCHANGED <<Nosc, vo, V, Mu, n, v1, v2, dv, vaxis, spec, eVals, eVecs, eMu, ndx, err>>

-----------------------------------------------------------------------------
(* Exercise9: frequency axis, eigensolver, projection *)

\* number of entries of np.arange(a, b, step), step > 0
ArangeLen(a, b, step) == IF b > a THEN (b - a + step - 1) \div step ELSE 0

\* np.arange(a, b, step)
Arange(a, b, step) == [i \in Idx(ArangeLen(a, b, step)) |-> a + i * step]

\* number of entries of a vector indexed from 0
Size(x) == Cardinality(DOMAIN x)

\* np.zeros(np.shape(x)), entries kept as rationals
ZerosLike(x) == [i \in DOMAIN x |-> RatZero]

\* vaxis = np.arange(v1,v2,dv)
MakeAxis ==
    /\ UNCHANGED <<dftVars, bars>>
    /\ pc = "axis"
    /\ vaxis' = Arange(v1, v2, dv)
    /\ pc' = "spec"
    /\ UNCHANGED <<Nosc, vo, V, Mu, H, n, v1, v2, dv, spec, eVals, eVecs, eMu, ndx, err>>

\* spec = np.zeros(np.shape(vaxis))
MakeSpec ==
    /\ UNCHANGED <<dftVars, bars>>
    /\ pc = "spec"
    /\ spec' = ZerosLike(vaxis)
    /\ pc' = "eig"
    /\ UNCHANGED <<Nosc, vo, V, Mu, H, n, v1, v2, dv, vaxis, eVals, eVecs, eMu, ndx, err>>

\* integer directions of the eigenvector columns
Coef == {-1, 0, 1}
CoefVecs(m) == {u \in [Idx(m) -> Coef] : \E i \in Idx(m) : u[i] # 0}

\* (A u)[i]
MatVec(A, u, m) == [i \in Idx(m) |-> SumTo([j \in Idx(m) |-> A[i][j] * u[j]], m)]

\* u . w
Dot(u, w, m) == SumTo([i \in Idx(m) |-> u[i] * w[i]], m)

\* A u = lam u
IsEigenpair(A, lam, u, m) == MatVec(A, u, m) = [i \in Idx(m) |-> lam * u[i]]

\* the only lam that can satisfy A u = lam u: (A u)[i] / u[i] at the first
\* non-zero entry of u
Rayleigh(A, u, m) ==
    LET i == CHOOSE i \in Idx(m) : u[i] # 0 /\ \A j \in Idx(i) : u[j] = 0
    IN MatVec(A, u, m)[i] \div u[i]

\* the eigenpairs <<lam, u>> of A with u an integer direction
EigPairs(A, m) ==
    {p \in {<<Rayleigh(A, u, m), u>> : u \in CoefVecs(m)} :
        IsEigenpair(A, p[1], p[2], m)}

\* what np.linalg.eig(A) may return for a real symmetric A: the eigenpairs in
\* any order, each column normalised and of either sign, the columns
\* orthogonal to each other
EigResults(A, m) ==
    {r \in [Idx(m) -> EigPairs(A, m)] :
        \A i, j \in Idx(m) : i # j => Dot(r[i][2], r[j][2], m) = 0}

\* eVals,eVecs = np.linalg.eig(H)
Eig ==
    /\ UNCHANGED <<dftVars, bars>>
    /\ pc = "eig"
    /\ Nosc <= MaxEigN
    /\ \E r \in EigResults(H, Nosc) :
        /\ eVals' = [k \in Idx(Nosc) |-> r[k][1]]
        /\ eVecs' = [k \in Idx(Nosc) |->
                        [u |-> r[k][2], q |-> Dot(r[k][2], r[k][2], Nosc)]]
    /\ pc' = "proj"
    /\ UNCHANGED <<Nosc, vo, V, Mu, H, n, v1, v2, dv, vaxis, spec, eMu, ndx, err>>

\* np.matmul(np.transpose(vecs), mu): entry k is column k of vecs dotted with mu
Project(vecs, mu, m) ==
    [k \in Idx(m) |-> [s |-> Dot(vecs[k].u, mu, m), q |-> vecs[k].q]]

\* eMu = np.matmul(np.transpose(eVecs), Mu)
MakeEMu ==
    /\ UNCHANGED <<dftVars, bars>>
    /\ pc = "proj"
    /\ eMu' = Project(eVecs, Mu, Nosc)
    /\ n' = 0
    /\ pc' = "loop"
    /\ UNCHANGED <<Nosc, vo, V, Mu, H, v1, v2, dv, vaxis, spec, eVals, eVecs, ndx, err>>

-----------------------------------------------------------------------------
(* Exercise9: the stick-spectrum loop *)

\* np.abs(axis - x)
AbsDiff(axis, x) == [b \in DOMAIN axis |-> Abs(axis[b] - x)]

\* np.min of the entries lo..hi-1 of d, lo < hi (halving keeps the recursion shallow)
RECURSIVE NpMinIn(_, _, _)
NpMinIn(d, lo, hi) ==
    IF hi - lo = 1 THEN d[lo]
    ELSE LET mid == (lo + hi) \div 2
             a == NpMinIn(d, lo, mid)
             b == NpMinIn(d, mid, hi)
         IN IF b < a THEN b ELSE a

\* a minimum that returns the first entry
NpMinFirst(d, m) == d[0]

\* np.min(d) of a non-empty d with m entries
NpMin(d, m) == NpMinIn(d, 0, m)

\* the indices in lo..hi-1 whose entry of d equals x, ascending
RECURSIVE NpWhereIn(_, _, _, _)
NpWhereIn(d, x, lo, hi) ==
    IF hi - lo <= 0 THEN <<>>
    ELSE IF hi - lo = 1 THEN (IF d[lo] = x THEN <<lo>> ELSE <<>>)
    ELSE LET mid == (lo + hi) \div 2
         IN NpWhereIn(d, x, lo, mid) \o NpWhereIn(d, x, mid, hi)

\* a lookup that compares with < instead of ==
NpWhereBelow(d, x, m) == NpWhereIn([i \in DOMAIN d |-> IF d[i] < x THEN x ELSE x - 1], x, 0, m)

\* np.where(d == x)[0]: the indices below m whose entry equals x, ascending
NpWhere(d, x, m) == NpWhereIn(d, x, 0, m)

\* a lookup whose hits come highest index first
NearestBinsDescending(axis, x) ==
    LET d == AbsDiff(axis, x)
        h == NpWhere(d, NpMin(d, Size(axis)), Size(axis))
    IN [i \in 1..Len(h) |-> h[Len(h) + 1 - i]]

\* np.where(np.abs(axis-x)==np.min(np.abs(axis-x)))[0], axis not empty
NearestBins(axis, x) ==
    LET d == AbsDiff(axis, x)
    IN NpWhere(d, NpMin(d, Size(axis)), Size(axis))

\* a weight that is not divided by the number of oscillators
WeightNoNorm(mu, m) == Rat(mu.s * mu.s, mu.q)

\* a weight that is not squared
WeightNoSquare(mu, m) == Rat(mu.s, mu.q * m)

\* (s/sqrt(q))**2 / m
Weight(mu, m) == Rat(mu.s * mu.s, mu.q * m)

\* an accumulation that assigns instead of adding
AccumulateAssign(sp, b, w) == [sp EXCEPT ![b] = w]

\* spec[b] += w
Accumulate(sp, b, w) == [sp EXCEPT ![b] = RatAdd(@, w)]

\* one iteration of the loop body:
\*   ndx = np.where(np.abs(vaxis-eVals[n])==np.min(np.abs(vaxis-eVals[n])))[0][0]
\*   spec[ndx] += eMu[n]**2/Nosc
\* np.min of an empty axis raises ValueError; [0] of an empty index list
\* raises IndexError
LoopBody ==
    /\ UNCHANGED <<dftVars, bars>>
    /\ pc = "loop"
    /\ n < Nosc
    /\ IF Size(vaxis) = 0
       THEN /\ err' = "ValueError"
            /\ pc' = "error"
            /\ UNCHANGED <<n, spec, ndx>>
       ELSE LET hits == NearestBins(vaxis, eVals[n])
            IN IF hits = <<>>
               THEN /\ err' = "IndexError"
                    /\ pc' = "error"
                    /\ UNCHANGED <<n, spec, ndx>>
               ELSE /\ ndx' = hits[1]
                    /\ spec' = Accumulate(spec, hits[1], Weight(eMu[n], Nosc))
                    /\ n' = n + 1
                    /\ UNCHANGED <<pc, err>>
    /\ UNCHANGED <<Nosc, vo, V, Mu, H, v1, v2, dv, vaxis, eVals, eVecs, eMu>>

\* the spectrum after the first k iterations of the loop over vals and mus,
\* started from sp on a non-empty axis
RECURSIVE StickSpectrum(_, _, _, _, _, _)
StickSpectrum(sp, axis, vals, mus, m, k) ==
    IF k = 0 THEN sp
    ELSE Accumulate(StickSpectrum(sp, axis, vals, mus, m, k - 1),
                    NearestBins(axis, vals[k - 1])[1], Weight(mus[k - 1], m))

\* the loop is exhausted
LoopExit ==
    /\ UNCHANGED <<dftVars, bars>>
    /\ pc = "loop"
    /\ ~(n < Nosc)
    /\ pc' = "done"
    /\ UNCHANGED <<Nosc, vo, V, Mu, H, n, v1, v2, dv, vaxis, spec, eVals, eVecs, eMu, ndx, err>>

\* column k of vecs: vecs[:,k], the entries u[i]/sqrt(q)
Column(vecs, k) == vecs[k]

\* plt.plot(vaxis, spec); plt.bar(np.arange(0,Nosc), eVecs[:,0]); plt.show()
PlotLowest ==
    /\ UNCHANGED dftVars
    /\ pc = "done"
    /\ bars' = Column(eVecs, 0)
    /\ pc' = "shown"
    /\ UNCHANGED <<Nosc, vo, V, Mu, H, n, v1, v2, dv, vaxis, spec, eVals, eVecs, eMu, ndx, err>>

ExNext ==
    \/ HZeros \/ HSuper \/ HSymmetrize \/ HDiagonal
    \/ MakeAxis \/ MakeSpec \/ Eig \/ MakeEMu
    \/ LoopBody \/ LoopExit \/ PlotLowest

\* the Fourier notebook is not running
DftIdle ==
    /\ cell = "none" /\ fpc = "idle" /\ N = 0 /\ f = <<>> /\ F = <<>> /\ fBack = <<>>
    /\ Faxis = <<>> /\ dt = 0 /\ faxis = <<>> /\ ferr = "none"

Init == ExInit /\ DftIdle

Next == ExNext

\* Exercise9.ipynb
Spec == Init /\ [][Next]_vars
-----------------------------------------------------------------------------
(* Fourier notebook: exact arithmetic in Z[zeta], zeta = exp(2 pi i / m) *)

\* A number of Z[zeta] is kept as its coefficients c[0..m-1] of zeta^0 ..
\* zeta^(m-1), reduced modulo the m-th cyclotomic polynomial: two numbers are
\* equal exactly when their reduced coefficients are.  Polynomials are
\* sequences, lowest degree first.

\* x^m - 1
XPowMinusOne(m) == [i \in 1..(m + 1) |-> IF i = 1 THEN -1 ELSE IF i = m + 1 THEN 1 ELSE 0]

\* a with its leading term cancelled by a multiple of the monic b
CancelLead(a, b) ==
    LET sh == Len(a) - Len(b)
    IN [i \in 1..(Len(a) - 1) |-> a[i] - (IF i > sh THEN a[Len(a)] * b[i - sh] ELSE 0)]

\* quotient of a by the monic polynomial b
RECURSIVE PolyQuot(_, _)
PolyQuot(a, b) ==
    IF Len(a) < Len(b) THEN <<>>
    ELSE Append(PolyQuot(CancelLead(a, b), b), a[Len(a)])

\* remainder of a by the monic polynomial b
RECURSIVE PolyRem(_, _)
PolyRem(a, b) ==
    IF Len(a) < Len(b) THEN a ELSE PolyRem(CancelLead(a, b), b)

\* the m-th cyclotomic polynomial: x^m - 1 divided by the cyclotomic
\* polynomials of the proper divisors of m
RECURSIVE Cyclotomic(_)
RECURSIVE DivideByCyclotomics(_, _)
DivideByCyclotomics(p, S) ==
    IF S = {} THEN p
    ELSE LET d == CHOOSE d \in S : TRUE
         IN DivideByCyclotomics(PolyQuot(p, Cyclotomic(d)), S \ {d})

Cyclotomic(m) ==
    DivideByCyclotomics(XPowMinusOne(m), {d \in 1..(m - 1) : m % d = 0})

\* the sample counts of the model: small ones, and the notebook's N = 50
DFTSizes == {1, 2, 3, 4}
CellN == 50
AllSizes == DFTSizes \cup {CellN}

CyclotomicOf == [m \in AllSizes |-> Cyclotomic(m)]

\* the coefficients c reduced modulo the m-th cyclotomic polynomial
Reduce(c, m) ==
    LET r == PolyRem([i \in 1..m |-> c[i - 1]], CyclotomicOf[m])
    IN [j \in Idx(m) |-> IF j < Len(r) THEN r[j + 1] ELSE 0]

\* the integer a
CInt(a, m) == Reduce([j \in Idx(m) |-> IF j = 0 THEN a ELSE 0], m)

CAdd(x, y, m) == [j \in Idx(m) |-> x[j] + y[j]]

\* x * zeta^e = x * exp(2 pi i e / m)
CMulZeta(x, e, m) == Reduce([j \in Idx(m) |-> x[(j - e) % m]], m)

\* x / d, for an x that d divides
CDivInt(x, d, m) == [j \in Idx(m) |-> x[j] \div d]

\* complex conjugate: zeta^j becomes zeta^(-j)
Conj(x, m) == Reduce([j \in Idx(m) |-> x[(-j) % m]], m)

\* sum of t[i] for i in 0..k-1
RECURSIVE CSum(_, _, _)
CSum(t, k, m) ==
    IF k = 0 THEN CInt(0, m) ELSE CAdd(CSum(t, k - 1, m), t[k - 1], m)

\* x * y
CMul(x, y, m) == CSum([j \in Idx(m) |-> CMulZeta([i \in Idx(m) |-> x[j] * y[i]], j, m)], m, m)

-----------------------------------------------------------------------------
(* Fourier notebook: the transforms and the frequency axis *)

\* an inverse transform without the factor 1/N
IDFTNoScale(X, m) ==
    [i \in Idx(m) |-> CSum([k \in Idx(m) |-> CMulZeta(X[k], k * i, m)], m, m)]

\* a forward transform whose frequency index is off by one
DFTShifted(x, m) ==
    [k \in Idx(m) |-> CSum([i \in Idx(m) |-> CMulZeta(x[i], -((k + 1) * i), m)], m, m)]

\* np.fft.fft: F[k] = sum_i x[i] exp(-2 pi i k i / m)
DFT(x, m) ==
    [k \in Idx(m) |-> CSum([i \in Idx(m) |-> CMulZeta(x[i], -(k * i), m)], m, m)]

\* np.fft.ifft: x[i] = (1/m) sum_k X[k] exp(+2 pi i k i / m)
IDFT(X, m) ==
    [i \in Idx(m) |->
        CDivInt(CSum([k \in Idx(m) |-> CMulZeta(X[k], k * i, m)], m, m), m, m)]

\* an axis that wraps one index late
FftfreqLate(m) == [k \in Idx(m) |-> IF k < (m \div 2) + 1 THEN k ELSE k - m]

\* the integer numerators of np.fft.fftfreq(m): 0 .. (m-1)//2, then
\* -(m//2) .. -1
FftfreqInt(m) ==
    LET h == ((m - 1) \div 2) + 1
    IN [k \in Idx(m) |-> IF k < h THEN k ELSE -(m \div 2) + (k - h)]

\* np.fft.fftfreq(m, d)[k] = FftfreqInt(m)[k] / (m*d), d = num/den
Fftfreq(m, num, den) == [k \in Idx(m) |-> Rat(FftfreqInt(m)[k] * den, m * num)]

\* x * c for a vector of rationals
RatScale(x, c) == [k \in DOMAIN x |-> Rat(x[k][1] * c, x[k][2])]

\* x / c, c > 0
RatOver(x, c) == [k \in DOMAIN x |-> Rat(x[k][1], x[k][2] * c)]

\* largest magnitude of the real and imaginary multipliers of an input sample
MaxSample == 1

\* the samples a + b*zeta: integers for m <= 2, complex for m >= 3
Samples(m) ==
    {CAdd(CInt(a, m), CMulZeta(CInt(b, m), 1, m), m) :
        a \in (-MaxSample)..MaxSample, b \in 0..1}

\* the pulse cell's time window and sampling interval in fs, and smaller ones
PulseTmax == 1000
PulseDt == 5
PulseSet == {<<PulseTmax, PulseDt>>, <<1, 1>>, <<3, 1>>, <<4, 1>>, <<4, 2>>, <<7, 2>>, <<10, 2>>}

\* Exercise9 is not running
ExIdle ==
    /\ pc = "idle" /\ Nosc = 0 /\ vo = 0 /\ V = 0 /\ Mu = <<>> /\ H = <<>> /\ n = 0
    /\ v1 = 0 /\ v2 = 0 /\ dv = 0 /\ vaxis = <<>> /\ spec = <<>> /\ eVals = <<>>
    /\ eVecs = <<>> /\ eMu = <<>> /\ ndx = -1 /\ err = "none" /\ bars = <<>>

\* the delta-function cell with its N (or another sample count), a signal
\* handed to fft and ifft, or the pulse cell
InitDFT ==
    /\ ExIdle
    /\ F = <<>> /\ fBack = <<>> /\ Faxis = <<>> /\ faxis = <<>> /\ ferr = "none"
    /\ \/ /\ cell = "delta"
          /\ N \in AllSizes
          /\ f = <<>>
          /\ dt = 1
          /\ fpc = "zeros"
       \/ /\ cell = "input"
          /\ N \in DFTSizes
          /\ f \in [Idx(N) -> Samples(N)]
          /\ dt = 1
          /\ fpc = "fft"
       \/ /\ cell = "pulse"
          /\ \E p \in PulseSet :
              /\ dt = p[2]
              /\ N = p[1] \div p[2]
          /\ f = <<>>
          /\ fpc = "faxis"

\* f = np.zeros((N))
DeltaZeros ==
    /\ UNCHANGED exVars
    /\ cell = "delta"
    /\ fpc = "zeros"
    /\ f' = [i \in Idx(N) |-> CInt(0, N)]
    /\ fpc' = "set"
    /\ UNCHANGED <<cell, N, F, fBack, Faxis, dt, faxis, ferr>>

\* f[1] = 1 (an index out of bounds raises IndexError)
DeltaSet ==
    /\ UNCHANGED exVars
    /\ cell = "delta"
    /\ fpc = "set"
    /\ IF 1 \in DOMAIN f
       THEN /\ f' = [f EXCEPT ![1] = CInt(1, N)]
            /\ fpc' = "fft"
            /\ UNCHANGED ferr
       ELSE /\ ferr' = "IndexError"
            /\ fpc' = "error"
            /\ UNCHANGED f
    /\ UNCHANGED <<cell, N, F, fBack, Faxis, dt, faxis>>

\* F = np.fft.fft(f)
FFT ==
    /\ UNCHANGED exVars
    /\ fpc = "fft"
    /\ F' = DFT(f, N)
    /\ fpc' = IF cell = "delta" THEN "faxis" ELSE "ifft"
    /\ UNCHANGED <<cell, N, f, fBack, Faxis, dt, faxis, ferr>>

\* np.fft.ifft(F)
IFFT ==
    /\ UNCHANGED exVars
    /\ fpc = "ifft"
    /\ fBack' = IDFT(F, N)
    /\ fpc' = "done"
    /\ UNCHANGED <<cell, N, f, F, Faxis, dt, faxis, ferr>>

\* Faxis = N*np.fft.fftfreq(N)
MakeFaxis ==
    /\ UNCHANGED exVars
    /\ cell = "delta"
    /\ fpc = "faxis"
    /\ Faxis' = RatScale(Fftfreq(N, 1, 1), N)
    /\ fpc' = "done"
    /\ UNCHANGED <<cell, N, f, F, fBack, dt, faxis, ferr>>

\* faxis = np.fft.fftfreq(N)/dt
MakeFaxisUnits ==
    /\ UNCHANGED exVars
    /\ cell = "pulse"
    /\ fpc = "faxis"
    /\ faxis' = RatOver(Fftfreq(N, 1, 1), dt)
    /\ fpc' = "done"
    /\ UNCHANGED <<cell, N, f, F, fBack, Faxis, dt, ferr>>

NextDFT ==
    \/ DeltaZeros \/ DeltaSet \/ FFT \/ IFFT \/ MakeFaxis \/ MakeFaxisUnits

\* the Fourier notebook
SpecDFT == InitDFT /\ [][NextDFT]_vars

-----------------------------------------------------------------------------
(* Exercise9: properties *)

\* the Hamiltonian is complete
HBuilt == pc \notin {"zeros", "super", "diag"}
\* the eigensolver has returned
EigDone == pc \in {"proj", "loop", "done", "shown", "error"}
\* the effective dipoles are computed
ProjDone == pc \in {"loop", "done", "shown", "error"}

\* bin b is the bin nearest to x: no bin is nearer, and no bin at the same
\* distance has a lower index
NoFartherThan(axis, b, c, x) ==
    \/ Abs(axis[b] - x) < Abs(axis[c] - x)
    \/ Abs(axis[b] - x) = Abs(axis[c] - x) /\ b <= c

\* (the neighbours of b are compared first: most bins fail there)
IsNearestBin(axis, b, x) ==
    /\ \A c \in {b - 1, b + 1} \cap DOMAIN axis : NoFartherThan(axis, b, c, x)
    /\ \A c \in DOMAIN axis : NoFartherThan(axis, b, c, x)

\* ((eVecs[:,k] . Mu)^2) / Nosc, from the eigenvector column itself
DipoleWeight(k) ==
    LET d == SumTo([i \in Idx(Nosc) |-> eVecs[k].u[i] * Mu[i]], Nosc)
    IN Rat(d * d, eVecs[k].q * Nosc)

\* sum of DipoleWeight over the eigenstates of the set S
RECURSIVE WeightOver(_)
WeightOver(S) ==
    IF S = {} THEN RatZero
    ELSE LET k == CHOOSE k \in S : TRUE
         IN RatAdd(DipoleWeight(k), WeightOver(S \ {k}))

\* C1: after the stick-spectrum loop every bin b holds the sum of
\* (eVecs[:,k] . Mu)^2 / Nosc over exactly the eigenstates k whose nearest bin
\* is b, and 0 when no eigenvalue selects b
C1_NearestBinAccumulation ==
    (pc = "done" /\ Size(vaxis) > 0) =>
        \A b \in DOMAIN vaxis :
            spec[b] = WeightOver({k \in Idx(Nosc) : IsNearestBin(vaxis, b, eVals[k])})

\* two eigenstates of non-zero weight have collided into one bin and another
\* bin stayed empty
C1_Witness ==
    /\ pc = "done"
    /\ \E j, k \in Idx(Nosc) :
        /\ j # k
        /\ DipoleWeight(j)[1] # 0
        /\ DipoleWeight(k)[1] # 0
        /\ \E b \in DOMAIN vaxis :
            /\ IsNearestBin(vaxis, b, eVals[j])
            /\ IsNearestBin(vaxis, b, eVals[k])
            /\ spec[b] = <<1, 1>>
    /\ \E b \in DOMAIN vaxis : spec[b] = RatZero

\* x lies outside the window [v1, v2)
OutsideWindow(x) == x < v1 \/ x >= v2

\* C2 (as claimed): on a non-empty axis, once the loop has looked up an
\* eigenvalue outside [v1, v2) the cell has ended with an index error
C2_Original ==
    (ProjDone /\ Size(vaxis) > 0 /\ \E k \in Idx(Nosc) : k < n /\ OutsideWindow(eVals[k]))
        => err = "IndexError"

\* C2 (amended): on a non-empty axis the lookup never raises; an eigenvalue
\* below v1 selects bin 0 and an eigenvalue at or above v2 selects the last bin
C2_ClipsToEdgeBin ==
    (ProjDone /\ Size(vaxis) > 0) =>
        /\ err = "none"
        /\ pc # "error"
        /\ (pc = "done" => n = Nosc)
        /\ n > 0 =>
            /\ eVals[n - 1] < v1 => ndx = 0
            /\ eVals[n - 1] >= v2 => ndx = Size(vaxis) - 1

\* the loop has looked up an eigenvalue below the window and one above it
C2_Witness ==
    /\ pc = "done"
    /\ Size(vaxis) > 1
    /\ err = "none"
    /\ eVals[n - 1] >= v2
    /\ ndx = Size(vaxis) - 1
    /\ spec[ndx] # RatZero

\* C3: after the loop the bins add up to the sum over all eigenstates of
\* (eVecs[:,k] . Mu)^2 / Nosc, wherever the window lies
C3_SpectrumConservation ==
    (pc = "done" /\ Size(vaxis) > 0) =>
        RatSumTo(spec, Size(vaxis)) = WeightOver(Idx(Nosc))

\* every eigenvalue lies outside the window and the weight is all there
C3_Witness ==
    /\ pc = "done"
    /\ Size(vaxis) > 0
    /\ Nosc = 2
    /\ \A k \in Idx(Nosc) : OutsideWindow(eVals[k])
    /\ RatSumTo(spec, Size(vaxis)) = <<1, 1>>

\* C4: the constructed Hamiltonian has vo on the diagonal, V next to it,
\* 0 elsewhere, and equals its transpose
C4_HamiltonianShape ==
    HBuilt =>
        /\ DOMAIN H = Idx(Nosc)
        /\ \A i, j \in Idx(Nosc) :
            /\ i = j => H[i][j] = vo
            /\ (i = j + 1 \/ j = i + 1) => H[i][j] = V
            /\ (i > j + 1 \/ j > i + 1) => H[i][j] = 0
            /\ H[i][j] = H[j][i]

\* a chain long enough to have zero entries away from the diagonal, coupled
C4_Witness == HBuilt /\ Nosc = 3 /\ V # 0 /\ H[0][1] = V /\ H[2][0] = 0

\* the notebook's two-oscillator example
TwoOscillator == Nosc = 2 /\ vo = 17000 /\ V = -100

\* C9: for Nosc = 2, vo = 17000, V = -100: H = [[17000,-100],[-100,17000]],
\* (1,1) and (1,-1) are eigenvectors for 16900 and 17100, these are the
\* eigenvalues returned, and the in-phase state carries the weight 1, the
\* other one 0
C9_TwoOscillatorExample ==
    TwoOscillator =>
        /\ HBuilt =>
            /\ H = [i \in 0..1 |-> [j \in 0..1 |-> IF i = j THEN 17000 ELSE -100]]
            /\ MatVec(H, [i \in 0..1 |-> 1], 2) = [i \in 0..1 |-> 16900]
            /\ MatVec(H, [i \in 0..1 |-> 1 - 2 * i], 2) = [i \in 0..1 |-> 17100 * (1 - 2 * i)]
        /\ EigDone =>
            /\ {eVals[0], eVals[1]} = {16900, 17100}
            /\ \A k \in 0..1 :
                /\ eVals[k] = 16900 => eVecs[k].u[0] = eVecs[k].u[1]
                /\ eVals[k] = 17100 => eVecs[k].u[0] = -eVecs[k].u[1]
        /\ pc = "done" =>
            /\ vaxis[900] = 16900 /\ spec[900] = <<1, 1>>
            /\ vaxis[1100] = 17100 /\ spec[1100] = RatZero
            /\ \A b \in DOMAIN spec : b # 900 => spec[b] = RatZero

\* the example has run to the end, the upper state returned first
C9_Witness ==
    /\ TwoOscillator
    /\ pc = "done"
    /\ eVals[0] = 17100
    /\ spec[900] = <<1, 1>>

C11_PlotsLowestState ==
    pc = "shown" =>
        /\ bars = eVecs[0]
        /\ \A k \in Idx(Nosc) : eVals[0] <= eVals[k]

\* this step is an iteration of the stick-spectrum loop that reached its end
LoopIteration == pc = "loop" /\ n < Nosc /\ n' = n + 1

\* eigenvalue x lies exactly halfway between bin b and bin b + 1
Halfway(axis, b, x) ==
    b \in DOMAIN axis /\ b + 1 \in DOMAIN axis /\ 2 * x = axis[b] + axis[b + 1]

\* what an iteration leaves alone and where it puts the weight: every bin
\* but ndx, H, eVals, eVecs and eMu are unchanged, spec[ndx] grows by
\* (eVecs[:,n] . Mu)^2 / Nosc, and ndx is the lowest-indexed bin at minimal
\* distance from eVals[n], the lower one of two bins the eigenvalue is halfway
\* between
IterationFrame ==
    /\ ndx' \in DOMAIN vaxis
    /\ \A b \in DOMAIN spec : b # ndx' => spec'[b] = spec[b]
    /\ DOMAIN spec' = DOMAIN spec
    /\ spec'[ndx'] = RatAdd(spec[ndx'], DipoleWeight(n))
    /\ UNCHANGED <<H, eVals, eVecs, eMu, vaxis>>
    /\ IsNearestBin(vaxis, ndx', eVals[n])
    /\ \A b \in DOMAIN vaxis : Halfway(vaxis, b, eVals[n]) => ndx' = b

\* C12 (as claimed): each iteration changes exactly one entry of spec, leaves
\* every other bin, H, eVals, eVecs and eMu unchanged, and the changed entry
\* is the lowest-indexed bin at minimal distance from eVals[n]
C12_Original ==
    [][LoopIteration =>
        /\ IterationFrame
        /\ Cardinality({b \in DOMAIN spec : spec'[b] # spec[b]}) = 1
        /\ spec'[ndx'] # spec[ndx']]_vars

\* C12 (amended): each iteration adds its weight to exactly one entry of
\* spec, which changes that entry unless the weight is 0, and leaves every
\* other bin, H, eVals, eVecs and eMu unchanged; the entry is the
\* lowest-indexed bin at minimal distance from eVals[n]
C12_IterationFrame ==
    [][LoopIteration =>
        /\ IterationFrame
        /\ Cardinality({b \in DOMAIN spec : spec'[b] # spec[b]}) <= 1
        /\ (DipoleWeight(n)[1] # 0 => spec'[ndx'] # spec[ndx'])]_vars

\* an iteration has credited an eigenvalue halfway between two bins to the
\* lower one and nothing to the upper one
C12_Witness ==
    /\ pc = "loop"
    /\ n = 1
    /\ Halfway(vaxis, ndx, eVals[0])
    /\ spec[ndx] = DipoleWeight(0)
    /\ spec[ndx][1] # 0
    /\ spec[ndx + 1] = RatZero

-----------------------------------------------------------------------------
(* Fourier notebook: properties *)

\* the forward transform has been computed
FDone == fpc \in {"ifft", "faxis", "done"} /\ cell \in {"delta", "input"}

\* x is a real number
IsReal(x, m) == x = Conj(x, m)

\* C5: the inverse transform of the forward transform of f is f, at every index
C5_RoundTrip ==
    (cell = "input" /\ fpc = "done") =>
        /\ DOMAIN fBack = Idx(N)
        /\ \A i \in Idx(N) : fBack[i] = f[i]

\* a round trip of four samples, one of them not real, whose transform
\* differs from the signal
C5_Witness ==
    /\ cell = "input"
    /\ fpc = "done"
    /\ N = 4
    /\ \E i \in Idx(N) : ~IsReal(f[i], N)
    /\ F # f
    /\ fBack = f

\* the axes have the shape of their sample count
AxisBuilt(axis) == fpc = "done" /\ DOMAIN axis = Idx(N) /\ N >= 1

\* C6 (as claimed): index k stands for k/(N*dt) when k <= N/2 and for
\* (k-N)/(N*dt) when k > N/2; Faxis[k] is k, respectively k - N
C6_Original ==
    /\ AxisBuilt(Faxis) =>
        \A k \in Idx(N) : Faxis[k] = IF 2 * k <= N THEN <<k, 1>> ELSE <<k - N, 1>>
    /\ AxisBuilt(faxis) =>
        \A k \in Idx(N) :
            faxis[k] = IF 2 * k <= N THEN Rat(k, N * dt) ELSE Rat(k - N, N * dt)

\* C6 (amended): index k stands for k/(N*dt) when k < N/2 and for
\* (k-N)/(N*dt) when k >= N/2; Faxis[k] is k, respectively k - N
C6_WrapsAtHalf ==
    /\ AxisBuilt(Faxis) =>
        \A k \in Idx(N) : Faxis[k] = IF 2 * k < N THEN <<k, 1>> ELSE <<k - N, 1>>
    /\ AxisBuilt(faxis) =>
        \A k \in Idx(N) :
            faxis[k] = IF 2 * k < N THEN Rat(k, N * dt) ELSE Rat(k - N, N * dt)

\* the axis of the notebook's 50 samples, negative from index 25 on
C6_Witness ==
    /\ AxisBuilt(Faxis)
    /\ N = 50
    /\ Faxis[24] = <<24, 1>>
    /\ Faxis[25] = <<-25, 1>>
    /\ Faxis[49] = <<-1, 1>>

\* C7: the delta-function cell (N = 50) builds f with f[0] = 1 and 0
\* elsewhere, and its transform has Re F[k] = |F[k]| = 1 and Im F[k] = 0 for
\* every k
C7_DeltaCell ==
    (cell = "delta" /\ N = 50 /\ fpc \in {"faxis", "done"}) =>
        /\ f[0] = CInt(1, N)
        /\ \A i \in 1..(N - 1) : f[i] = CInt(0, N)
        /\ \A k \in Idx(N) :
            /\ CAdd(F[k], Conj(F[k], N), N) = CInt(2, N)
            /\ F[k] = Conj(F[k], N)
            /\ CMul(F[k], Conj(F[k], N), N) = CInt(1, N)

\* C8: for a real signal, F[N-k] is the complex conjugate of F[k] for every
\* k in 1..N-1
C8_ConjugateSymmetry ==
    (FDone /\ \A i \in Idx(N) : IsReal(f[i], N)) =>
        \A k \in 1..(N - 1) : F[N - k] = Conj(F[k], N)

\* the transform of a real signal with an entry that is not real
C8_Witness ==
    /\ FDone
    /\ N >= 3
    /\ \A i \in Idx(N) : IsReal(f[i], N)
    /\ \E k \in 1..(N - 1) : ~IsReal(F[k], N) /\ F[N - k] = Conj(F[k], N)
====
